---- MODULE Spec2Model ----
(***************************************************************************)
(* Model of modules/lora_keywords.py: the rate-limited request dispatcher  *)
(* (process_requests, queue_api_request), the sidecar metadata store       *)
(* (load_metadata, save_metadata), the catalog client (fetch_from_civitai, *)
(* get_model_by_hash) and the resolver (get_lora_metadata).                *)
(*                                                                         *)
(* Time is kept as ages: every timestamp the code stores is represented by *)
(* the number of seconds that have passed since it was taken, and every    *)
(* pending sleep or timeout by the number of seconds it has left.  Tick    *)
(* lets TickSecs seconds pass.  Ages are capped at WindowSecs, which loses *)
(* nothing: the code only asks whether now - t < 60.                       *)
(***************************************************************************)
EXTENDS Integers, Sequences, FiniteSets, TLC

\* ---------------------------------------------------------------- constants
\* len(request_times) >= 10
RateLimit == 10
\* now - t < 60, and 60 - (now - request_times[0])
WindowSecs == 60
\* result_queue.get(timeout=30)
AwaitTimeout == 30

\* ------------------------------------------------------------------- bounds
\* seconds that pass in one Tick
TickSecs == 20
\* requests enqueued in one behaviour
MaxRequests == 2
\* longest tag list and longest trigger word list of a catalog payload
MaxWords == 2

Min(a, b) == IF a < b THEN a ELSE b
Max(a, b) == IF a > b THEN a ELSE b

\* ------------------------------------------------------------------ threads
\* Threads that call get_lora_metadata: a UI event handler and the background
\* refresh thread that update_keywords_display starts.
Callers == {"ui", "bg"}

\* ------------------------------------------------------------- file system
\* Arguments of get_lora_metadata.  "a", "b" and "c" are asset files that
\* exist, "gone" resolves to no existing file, "" and "None" are skipped up
\* front.
Filenames == {"", "None", "gone", "a", "b", "c"}
Assets == {"a", "b", "c"}

\* os.path.exists / get_file_from_folder_list: the resolved path, "" for none
ResolvePath(f) == IF f \in Assets THEN f ELSE ""

\* sha256_from_cache: "c" is an asset for which no digest is available
sha256_from_cache(p) ==
    CASE p = "a" -> "ha"
      [] p = "b" -> "hb"
      [] OTHER -> ""

\* ------------------------------------------------------------------- values
Words == {"anime", "style", "masterpiece"}
WordLists == UNION {[1..n -> Words] : n \in 0..MaxWords}

\* A JSON member that holds a list of strings: missing, null or a list
Missing == [k |-> "missing", v |-> <<>>]
Null == [k |-> "null", v |-> <<>>]
List(s) == [k |-> "list", v |-> s]

\* A catalog response body (HTTP 200).  k = "object" is a JSON object with
\* the members name, modelId, baseModel, trainedWords, model, model.tags and
\* images; k = "other" is a body that parses to a non-empty value that is no
\* object.  The three scalar members are present or missing together.
\*   model: "missing" | "null" | "object";  tags is read only under "object"
\*   images: "missing" | "empty" | "url" | "nourl"
Payload(name, tw, model, tags, images) ==
    [k |-> "object", name |-> name, modelId |-> name, baseModel |-> name,
     trainedWords |-> tw, model |-> model, tags |-> tags, images |-> images]
EmptyPayload == Payload("MISSING", Missing, "missing", Missing, "missing")
OtherPayload == [EmptyPayload EXCEPT !.k = "other"]

\* The payload of the specification's example
ExamplePayload ==
    Payload("n", List(<<"style", "masterpiece">>), "object",
            List(<<"anime", "style">>), "url")

\* Payloads of the dispatcher specifications: one ordinary body
PlainPayloads == {ExamplePayload}

\* Payloads of NormalizeSpec: every shape the normalisation distinguishes
ListMembers == {Missing, Null} \cup {List(s) : s \in WordLists}
RichPayloads ==
    {Payload("n", tw, "object", tg, "missing") : tw \in ListMembers, tg \in ListMembers}
    \cup {Payload(n, List(<<"style">>), m, Missing, i) :
            n \in {"MISSING", "n"}, m \in {"missing", "null"},
            i \in {"missing", "empty", "url", "nourl"}}
    \cup {EmptyPayload, OtherPayload, ExamplePayload}

\* bool(api_data), used by "if not api_data": None and {} are falsy
\* The values a Python name can hold here: None, a raised exception, a
\* metadata record, a payload.  Records of different shapes compare unequal.
None == [k |-> "none"]
Truthy(api) == api # None /\ api # EmptyPayload
Raised == [k |-> "raised"]
NotYet == [k |-> "pending"]

\* ------------------------------------------------------------ normalisation
Range(s) == {s[i] : i \in 1..Len(s)}

\* dict.get(key, default)
DictGet(x, default) == IF x = "MISSING" THEN default ELSE x

\* "model" in api_data and "tags" in api_data["model"]
HasTags(api) == api.model = "object" /\ api.tags.k # "missing"

\* for word in trigger_words: if word not in keywords: keywords.append(word)
RECURSIVE AddTriggerWords(_, _)
AddTriggerWords(keywords, words) ==
    IF words = <<>> THEN keywords
    ELSE AddTriggerWords(IF Head(words) \in Range(keywords) THEN keywords
                         ELSE Append(keywords, Head(words)),
                         Tail(words))

\* mutant: the trigger words are put in front of the tags
KeywordsWordsFirst(tags, words) == AddTriggerWords(words, tags)

\* metadata["keywords"] after the two steps "add tags" and "add trigger words"
Keywords(tags, words) == AddTriggerWords(tags, words)

\* The statements of the normalisation that raise: .get on a body that is no
\* object, "tags" in None, iterating None, and word not in None.
NormalizeRaises(api) ==
    \/ api.k = "other"
    \/ api.model = "null"
    \/ api.trainedWords.k = "null"
    \/ HasTags(api) /\ api.tags.k = "null" /\ api.trainedWords.v # <<>>

\* The metadata record built from a payload on which no statement raises
Normalize(hash, api) ==
    [k |-> "rec",
     hash |-> hash,
     name |-> DictGet(api.name, "Unknown"),
     model_id |-> DictGet(api.modelId, "NONE"),
     keywords |-> IF HasTags(api) /\ api.tags.k = "null" THEN Null
                  ELSE List(Keywords(IF HasTags(api) THEN api.tags.v ELSE <<>>,
                                     api.trainedWords.v)),
     trigger_words |-> api.trainedWords.v,
     base_model |-> DictGet(api.baseModel, "Unknown"),
     preview_image |-> CASE api.images = "url" -> "u"
                         [] api.images = "nourl" -> ""
                         [] OTHER -> "ABSENT"]

\* --------------------------------------------------------------------- JSON
\* The Python values the store handles: the dict {} and a metadata record
EmptyJson == [k |-> "empty"]
OldRecord ==
    [k |-> "rec", hash |-> "old", name |-> "old", model_id |-> "NONE",
     keywords |-> List(<<"anime">>), trigger_words |-> <<>>,
     base_model |-> "Unknown", preview_image |-> "ABSENT"]

\* JSON texts, by the value they denote: null, a string, an array, an object
\* with its members in the order of the text.  A scalar member of a record
\* is written as a string.
JNull == [t |-> "null"]
JString(str) == [t |-> "string", s |-> str]
JArray(items) == [t |-> "array", items |-> items]
JObject(members) == [t |-> "object", members |-> members]
JMember(key, value) == [key |-> key, value |-> value]
JStrings(seq) == JArray([i \in 1..Len(seq) |-> JString(seq[i])])

\* mutant: None is written as the string "None"
json_dumpNoneAsString(metadata) ==
    IF metadata = EmptyJson THEN JObject(<<>>)
    ELSE JObject(<<JMember("hash", JString(metadata.hash)),
                   JMember("name", JString(metadata.name)),
                   JMember("model_id", JString(IF metadata.model_id = "NONE"
                                               THEN "None"
                                               ELSE metadata.model_id)),
                   JMember("keywords",
                           IF metadata.keywords.k = "null" THEN JNull
                           ELSE JStrings(metadata.keywords.v)),
                   JMember("trigger_words", JStrings(metadata.trigger_words)),
                   JMember("base_model", JString(metadata.base_model))>>
                 \o IF metadata.preview_image = "ABSENT" THEN <<>>
                    ELSE <<JMember("preview_image",
                                   JString(metadata.preview_image))>>)

\* json.dump(metadata, f): the keys in insertion order, None as null, a key
\* the dict does not hold left out
json_dump(metadata) ==
    IF metadata = EmptyJson THEN JObject(<<>>)
    ELSE JObject(<<JMember("hash", JString(metadata.hash)),
                   JMember("name", JString(metadata.name)),
                   JMember("model_id", IF metadata.model_id = "NONE"
                                       THEN JNull
                                       ELSE JString(metadata.model_id)),
                   JMember("keywords",
                           IF metadata.keywords.k = "null" THEN JNull
                           ELSE JStrings(metadata.keywords.v)),
                   JMember("trigger_words", JStrings(metadata.trigger_words)),
                   JMember("base_model", JString(metadata.base_model))>>
                 \o IF metadata.preview_image = "ABSENT" THEN <<>>
                    ELSE <<JMember("preview_image",
                                   JString(metadata.preview_image))>>)

\* The value of a member of a JSON object, the last one of that name; Missing
\* when the object has none
JGet(object, key) ==
    LET at == {i \in 1..Len(object.members) : object.members[i].key = key}
    IN  IF at = {} THEN Missing
        ELSE object.members[CHOOSE i \in at : \A j \in at : j <= i].value

\* json.load(f) of a text that parses to an object: null becomes None, an
\* array a list, and the dict holds the keys the object has
json_load(text) ==
    LET Str(key, none) ==
            CASE JGet(text, key) = Missing -> none
              [] JGet(text, key) = JNull -> none
              [] OTHER -> JGet(text, key).s
        Strs(key) ==
            IF JGet(text, key) = Missing THEN <<>>
            ELSE [i \in 1..Len(JGet(text, key).items) |->
                     JGet(text, key).items[i].s]
    IN  IF text.members = <<>> THEN EmptyJson
        ELSE [k |-> "rec",
              hash |-> Str("hash", "NONE"),
              name |-> Str("name", "NONE"),
              model_id |-> Str("model_id", "NONE"),
              keywords |-> IF JGet(text, "keywords") = JNull THEN Null
                           ELSE List(Strs("keywords")),
              trigger_words |-> Strs("trigger_words"),
              base_model |-> Str("base_model", "NONE"),
              preview_image |-> Str("preview_image", "ABSENT")]

\* -------------------------------------------------------------------- files
\* The lines json.dump(..., indent=2) writes for a JSON value: a string or
\* null on one line, an array on one line when it is empty and on one line
\* per item between its brackets otherwise, an object likewise.
JValueLines(value) ==
    IF value.t = "array" /\ value.items # <<>> THEN Len(value.items) + 2
    ELSE 1
JMemberLines(members) ==
    Cardinality({<<i, j>> \in (1..Len(members)) \X (1..(2 * MaxWords + 2)) :
                   j <= JValueLines(members[i].value)})
JLines(object) ==
    IF object.members = <<>> THEN 1 ELSE JMemberLines(object.members) + 2

\* What a file holds: runs of lines, each run the lines lo..hi of one text.
\* Lines(text) is the whole text of a JSON value.
Run(text, lo, hi) == [text |-> text, lo |-> lo, hi |-> hi]
Lines(text) == <<Run(text, 1, JLines(text))>>
Garbage == <<Run([t |-> "garbage"], 1, 1)>>

\* The number of lines in a sequence of runs
RECURSIVE LineCount(_)
LineCount(runs) ==
    IF runs = <<>> THEN 0
    ELSE Head(runs).hi - Head(runs).lo + 1 + LineCount(Tail(runs))

\* The runs without their first n lines
RECURSIVE DropLines(_, _)
DropLines(runs, n) ==
    IF runs = <<>> \/ n = 0 THEN runs
    ELSE IF Head(runs).hi - Head(runs).lo + 1 <= n
    THEN DropLines(Tail(runs), n - (Head(runs).hi - Head(runs).lo + 1))
    ELSE <<Run(Head(runs).text, Head(runs).lo + n, Head(runs).hi)>>
         \o Tail(runs)

\* The lines of a text, one after the other.  A line is the opening or the
\* closing brace of the object, "{}", a member on one line (a string, null or
\* []), the line that opens an array member, one item of an array, or the
\* line that closes an array; comma tells whether a comma ends the line.
Line(c, key, value, comma) ==
    [c |-> c, key |-> key, value |-> value, comma |-> comma]
Brace(c) == Line(c, "", JNull, FALSE)
MemberText(member, comma) ==
    IF member.value.t = "array" /\ member.value.items # <<>>
    THEN <<Line("open", member.key, JNull, FALSE)>>
         \o [j \in 1..Len(member.value.items) |->
                Line("item", "", member.value.items[j],
                     j < Len(member.value.items))]
         \o <<Line("close", "", JNull, comma)>>
    ELSE <<Line("member", member.key, member.value, comma)>>
RECURSIVE MembersText(_)
MembersText(members) ==
    IF members = <<>> THEN <<>>
    ELSE MemberText(Head(members), Len(members) > 1)
         \o MembersText(Tail(members))
Text(value) ==
    CASE value.t # "object" -> <<Brace("garbage")>>
      [] value.members = <<>> -> <<Brace("{}")>>
      [] OTHER -> <<Brace("{")>> \o MembersText(value.members)
                  \o <<Brace("}")>>

\* The lines a file holds
RECURSIVE FileText(_)
FileText(runs) ==
    IF runs = <<>> THEN <<>>
    ELSE SubSeq(Text(Head(runs).text), Head(runs).lo, Head(runs).hi)
         \o FileText(Tail(runs))

\* json.load accepts line b after line a
Follows(a, b) ==
    CASE a.c = "{" -> b.c \in {"member", "open", "}"}
      [] a.c \in {"member", "close"} ->
             IF a.comma THEN b.c \in {"member", "open"} ELSE b.c = "}"
      [] a.c = "open" -> b.c \in {"item", "close"}
      [] a.c = "item" -> IF a.comma THEN b.c = "item" ELSE b.c = "close"
      [] OTHER -> FALSE

\* json.load accepts the text: one object from its opening brace to its
\* closing brace, with nothing after it
WellFormed(text) ==
    \/ text = <<Brace("{}")>>
    \/ /\ Len(text) >= 2
       /\ text[1].c = "{"
       /\ \A i \in 1..(Len(text) - 1) : Follows(text[i], text[i + 1])
       /\ text[Len(text)].c = "}"

\* The object json.load reads from a text it accepts: its members in the
\* order of the text, an array with the items between its two brackets
Parsed(text) ==
    LET starts == {i \in 1..Len(text) : text[i].c \in {"member", "open"}}
        Nth(k) == CHOOSE i \in starts :
                      Cardinality({j \in starts : j <= i}) = k
        End(i) == CHOOSE j \in (i + 1)..Len(text) :
                      \A h \in (i + 1)..j : text[h].c = "close" <=> h = j
        Value(i) ==
            IF text[i].c = "member" THEN text[i].value
            ELSE JArray([h \in 1..(End(i) - i - 1) |-> text[i + h].value])
    IN  JObject([k \in 1..Cardinality(starts) |->
                    JMember(text[Nth(k)].key, Value(Nth(k)))])

\* json.load accepts the lines of the file
Parses(lines) == WellFormed(FileText(lines))

\* The file holds the whole text of one object and nothing else: json.load
\* reads that object
Whole(lines) ==
    /\ Len(lines) = 1
    /\ lines[1].text.t = "object"
    /\ lines = Lines(lines[1].text)

\* f.write at the start of a file that open(..., 'w') has truncated earlier:
\* what lies beyond the end of the new lines stays
Overwrite(old, new) == new \o DropLines(old, LineCount(new))

\* -------------------------------------------------------------------- store
\* The sidecar file of an asset: no file, or a file and its lines.  Corrupt
\* is a file whose text does not parse, EmptyFile holds {} and OldFile a
\* metadata record.
Absent == [k |-> "absent", lines |-> <<>>]
File(lines) == [k |-> "file", lines |-> lines]
Corrupt == File(Garbage)
EmptyFile == File(Lines(json_dump(EmptyJson)))
OldFile == File(Lines(json_dump(OldRecord)))

\* with open(metadata_path, 'r') as f: return json.load(f), inside try;
\* None when the file is missing or json.load raises
ReadFile(file) ==
    IF file.k # "file" THEN None
    ELSE IF Whole(file.lines) THEN json_load(file.lines[1].text)
    ELSE CHOOSE value \in {IF WellFormed(text)
                           THEN CHOOSE dict \in {json_load(object) :
                                                  object \in {Parsed(text)}} :
                                    TRUE
                           ELSE None : text \in {FileText(file.lines)}} : TRUE

\* mutant: the sidecar is looked up under a name that never exists
load_metadataWrongName(store, lora_path) == None

\* mutant: no try around open and json.load, a failure propagates
load_metadataRaising(store, lora_path) ==
    CASE store[lora_path] = Absent -> None
      [] ~Parses(store[lora_path].lines) -> Raised
      [] OTHER -> ReadFile(store[lora_path])

\* try: if os.path.exists(...): return json.load(f); except Exception: pass;
\* return None
load_metadata(store, lora_path) ==
    IF store[lora_path] = Absent THEN None ELSE ReadFile(store[lora_path])

\* mutant: the refresh flag is ignored
UseCacheAlways(refresh) == TRUE

\* if not refresh:
UseCache(refresh) == ~refresh

\* if metadata:
IsHit(metadata) == metadata # None /\ metadata # EmptyJson

\* mutant: the file is opened for appending
save_metadataAppending(store, lora_path, metadata, outcome) ==
    CASE outcome = "written" ->
             [store EXCEPT ![lora_path] =
                 File(@.lines \o Lines(json_dump(metadata)))]
      [] outcome = "openfailed" -> store
      [] OTHER -> [store EXCEPT ![lora_path] = Corrupt]

\* How a save can end: written; makedirs or open failed (file untouched);
\* the write failed after open(..., 'w') had truncated the file.
\* The text is dumped once and its lines are written.
SaveOutcomes == {"written", "openfailed", "writefailed"}
save_metadata(store, lora_path, metadata, outcome) ==
    CASE outcome = "written" ->
             [store EXCEPT ![lora_path] =
                 CHOOSE file \in {File(Lines(text)) :
                                    text \in {json_dump(metadata)}} : TRUE]
      [] outcome = "openfailed" -> store
      [] OTHER -> [store EXCEPT ![lora_path] = Corrupt]

\* mutant: the record is returned only when it could be saved
ReturnAfterSaveChecked(metadata, outcome) ==
    IF outcome = "written" THEN metadata ELSE None

\* save_metadata(lora_path, metadata); return metadata: the value
\* save_metadata returns is not looked at
ReturnAfterSave(metadata, outcome) == metadata

\* --------------------------------------------------------------- dispatcher
\* request_times = [t for t in request_times if now - t < 60]
Prune(times) == SelectSeq(times, LAMBDA age : age < WindowSecs)

\* mutant: the limit tested with > in place of >=
MustThrottleOffByOne(times) == Len(times) > RateLimit

\* if len(request_times) >= 10:
MustThrottle(times) == Len(times) >= RateLimit

\* mutant: a fixed back-off of one window
ThrottleSleepFixed(times) == WindowSecs

\* max(0, 60 - (now - request_times[0]))
ThrottleSleep(times) == Max(0, WindowSecs - times[1])

\* mutant: the callable is not put on the queue
queue_api_requestBypassed(queue, func, args, result_queue) == queue

\* mutant: the request is put at the front of the queue
queue_api_requestAtFront(queue, func, args, result_queue) ==
    <<[func |-> func, args |-> args, result_queue |-> result_queue]>> \o queue

\* queue_api_request: request_queue.put((func, args, result_queue))
queue_api_request(queue, func, args, result_queue) ==
    Append(queue, [func |-> func, args |-> args, result_queue |-> result_queue])

\* mutant: every queue_api_request starts a worker of its own
WorkersAfterEnqueueStarting(n) == n + 1

\* The process_requests threads that exist after queue_api_request has run,
\* given how many existed before: the function starts none.
WorkersAfterEnqueue(n) == n

\* ----------------------------------------------------------- catalog client
\* Statuses other than 200 the catalog answers with, and the body it sends
\* with them: an object with none of the members the normalisation reads
ErrorStatuses == {404, 429, 500}
ErrorPayload == [EmptyPayload EXCEPT !.k = "error"]

\* mutant: the body is parsed and returned whatever the status
fetch_from_civitaiAnyStatus(status, body) == body

\* if response.status_code == 200: return response.json(); return None
fetch_from_civitai(status, body) == IF status = 200 THEN body ELSE None

\* mutant: the callable is started in a thread of its own and the worker
\* goes back to its loop
InvokeDetached(request) == "loop"

\* result = func(*args): where the worker is while the callable runs; it
\* calls it itself and waits for it to return or raise
Invoke(request) == "calling"

\* success, result = result_queue.get(timeout=30); result if success else None
AwaitedValue(item) == IF item.success THEN item.result ELSE None

\* ------------------------------------------------------------------- state
VARIABLES
    request_queue,   \* Queue of (func, args, result_queue); result_queue is
                     \* the index of the caller's queue in result_queues
    result_queues,   \* the Queue() objects queue_api_request has created
    request_times,   \* ages of the timestamps in request_times
    is_running,      \* the flag of the worker loop
    workers,         \* number of live process_requests threads
    wpc,             \* where the worker is: "loop", "sleeping" (the
                     \* throttle sleep), "calling", "dead"
    wsleep,          \* seconds left of the throttle sleep
    current,         \* the request the worker has dequeued, None otherwise
    threads,         \* per caller thread: its position and locals
    last,            \* history: the call of get_lora_metadata that the
                     \* step just taken ended, NoCall if it ended none
    sidecar,         \* per asset: contents of <asset>.civitai.json
    workload,        \* what the environment does in this behaviour:
                     \* "dispatch", "lookup", "normalize" or "store", see
                     \* Active, Arguments and Bodies
    requests,        \* history: every request put on request_queue
    issued,          \* history: ages (< WindowSecs) of the invocations
    invoked,         \* history: result_queue indices in invocation order
    delivered,       \* history: result_queue indices in delivery order
    abandoned        \* history: result_queue indices whose caller timed out

vars == <<request_queue, result_queues, request_times, is_running, workers,
          wpc, wsleep, current, threads, last, sidecar, workload, requests,
          issued, invoked, delivered, abandoned>>

\* The threads that call get_lora_metadata
Active == IF workload = "dispatch" THEN Callers ELSE {"ui"}
\* The filenames callers pass to get_lora_metadata: under load one asset,
\* otherwise one of each kind ("a" and "b" differ in their digest only)
Arguments == IF workload = "dispatch" THEN {"a"} ELSE Filenames \ {"b"}
\* The bodies the catalog answers with on status 200
Bodies == IF workload = "normalize" THEN RichPayloads ELSE PlainPayloads

\* A caller thread outside get_lora_metadata.  Inside, it waits in
\* get_model_by_hash: file and refresh are its arguments, before is the
\* sidecar it found when it was called, loaded tells whether load_metadata
\* ran, hash is hash_value, rq its result queue, tleft what is left of the
\* timeout, api_data what get_model_by_hash returned (NotYet before).
IdleThread ==
    [pc |-> "idle", file |-> "", refresh |-> FALSE, before |-> Absent,
     loaded |-> FALSE, hash |-> "", rq |-> 0, tleft |-> 0,
     api_data |-> NotYet]

\* What a call that has ended leaves in last: the thread's record, what
\* get_model_by_hash returned (NotYet when it was not called) and the result
NoCall == [call |-> IdleThread, api |-> NotYet, ret |-> NotYet]
Ended(t, api_data, ret) ==
    [call |-> [t EXCEPT !.pc = "idle", !.tleft = 0, !.api_data = api_data],
     api |-> api_data, ret |-> ret]

\* lines 15-18 and 727-730: empty queue, empty window, one started worker
InitDispatcher ==
    /\ request_queue = <<>>
    /\ result_queues = <<>>
    /\ is_running = TRUE
    /\ workers = 1
    /\ wpc = "loop"
    /\ wsleep = 0
    /\ current = None
    /\ requests = <<>>
    /\ invoked = <<>>
    /\ delivered = <<>>
    /\ abandoned = {}
    /\ threads = [c \in Callers |-> IdleThread]
    /\ last = NoCall

Sidecars == {Absent, Corrupt, EmptyFile, OldFile}

\* Windows the worker can have built up when the queue is empty and every
\* caller has returned: none yet; RateLimit - 1 or RateLimit requests served
\* within one second; one request served 2 * TickSecs ago and RateLimit - 1
\* just now.
FullWindow == [i \in 1..RateLimit |-> 0]
InitWindows ==
    {<<>>, SubSeq(FullWindow, 2, RateLimit), FullWindow,
     [i \in 1..RateLimit |-> IF i = 1 THEN 2 * TickSecs ELSE 0]}

Init ==
    /\ InitDispatcher
    /\ request_times \in InitWindows
    /\ issued = request_times
    /\ sidecar \in {[p \in Assets |-> Absent], [p \in Assets |-> OldFile]}
    /\ workload = "dispatch"

\* ------------------------------------------------------------------- worker
\* while is_running: with an empty queue the loop only sleeps 0.1 s and tests
\* again, which changes nothing: those iterations are stuttering steps.

\* request_times.append(time.time()); func, args, result_queue =
\* request_queue.get(); and func(*args) is entered
Dispatch(times) ==
    /\ request_times' = Append(times, 0)
    /\ current' = Head(request_queue)
    /\ request_queue' = Tail(request_queue)
    /\ issued' = Append(issued, 0)
    /\ invoked' = Append(invoked, Head(request_queue).result_queue)
    /\ wpc' = Invoke(Head(request_queue))
    /\ wsleep' = 0

\* if not request_queue.empty(): prune, then either start the throttle sleep
\* or go on to the request
WorkerAdmit ==
    /\ wpc = "loop" /\ is_running /\ request_queue # <<>>
    /\ IF MustThrottle(Prune(request_times))
       THEN /\ request_times' = Prune(request_times)
            /\ wpc' = "sleeping"
            /\ wsleep' = ThrottleSleep(Prune(request_times))
            /\ UNCHANGED <<request_queue, current, issued, invoked>>
       ELSE Dispatch(Prune(request_times))
    /\ UNCHANGED <<result_queues, is_running, workers, threads, sidecar,
                   workload, requests, delivered, abandoned>>
    /\ last' = NoCall

\* the throttle sleep returns, at its end or later
WorkerWake ==
    /\ wpc = "sleeping" /\ wsleep = 0
    /\ Dispatch(request_times)
    /\ UNCHANGED <<result_queues, is_running, workers, threads, sidecar,
                   workload, requests, delivered, abandoned>>
    /\ last' = NoCall

\* result_queue.put(item); request_queue.task_done()
Deliver(item) ==
    /\ wpc = "calling"
    /\ result_queues' = [result_queues EXCEPT
                           ![current.result_queue] = Append(@, item)]
    /\ delivered' = Append(delivered, current.result_queue)
    /\ current' = None
    /\ wpc' = "loop"
    /\ UNCHANGED <<request_queue, request_times, is_running, workers, wsleep,
                   threads, sidecar, workload, requests, issued, invoked, abandoned>>
    /\ last' = NoCall

\* fetch_from_civitai: status 200, return response.json()
FetchOk ==
    \E body \in Bodies :
        Deliver([success |-> TRUE, result |-> fetch_from_civitai(200, body)])

\* fetch_from_civitai: any other status, return None
FetchNot200 ==
    \E status \in ErrorStatuses :
        Deliver([success |-> TRUE,
                 result |-> fetch_from_civitai(status, ErrorPayload)])

\* fetch_from_civitai raises an Exception (timeout, connection error, a body
\* that is no JSON): except Exception puts (False, None)
FetchRaises == Deliver([success |-> FALSE, result |-> None])

\* the callable raises a BaseException that is no Exception: it passes
\* except Exception and ends the thread; nothing is put, no task_done
CallableKillsWorker ==
    /\ wpc = "calling"
    /\ wpc' = "dead"
    /\ workers' = workers - 1
    /\ current' = None
    /\ UNCHANGED <<request_queue, result_queues, request_times, is_running,
                   wsleep, threads, sidecar, workload, requests, issued, invoked,
                   delivered, abandoned>>
    /\ last' = NoCall

\* ----------------------------------------------------------------- resolver
\* get_lora_metadata up to the call of get_model_by_hash: what it returns, or
\* the digest it goes on to fetch; loaded tells whether load_metadata ran.
Lookup(store, lora_filename, refresh) ==
    LET lora_path == ResolvePath(lora_filename)
        metadata == load_metadata(store, lora_path)
        hash_value == sha256_from_cache(lora_path)
        Return(v, l) == [act |-> "return", ret |-> v, loaded |-> l, hash |-> ""]
    IN  IF lora_filename \in {"", "None"} THEN Return(None, FALSE)
        ELSE IF lora_path = "" THEN Return(None, FALSE)
        ELSE IF UseCache(refresh) /\ IsHit(metadata) THEN Return(metadata, TRUE)
        ELSE IF hash_value = "" THEN Return(None, UseCache(refresh))
        ELSE [act |-> "fetch", ret |-> NotYet, loaded |-> UseCache(refresh),
              hash |-> hash_value]

\* A thread calls get_lora_metadata(lora_filename, refresh).  It returns at
\* once, or get_model_by_hash enqueues fetch_from_civitai(hash_value) and the
\* thread starts to wait on its result queue.
Call(c, lora_filename, refresh) ==
    /\ threads[c].pc = "idle"
    /\ LET d == Lookup(sidecar, lora_filename, refresh)
           entered == [IdleThread EXCEPT
                         !.file = lora_filename,
                         !.refresh = refresh,
                         !.before = IF ResolvePath(lora_filename) \in Assets
                                    THEN sidecar[ResolvePath(lora_filename)]
                                    ELSE Absent,
                         !.loaded = d.loaded,
                         !.hash = d.hash]
       IN  IF d.act = "return"
           THEN /\ last' = Ended(entered, NotYet, d.ret)
                /\ UNCHANGED <<threads, request_queue, result_queues, workers,
                               requests>>
           ELSE /\ Len(result_queues) < MaxRequests
                /\ result_queues' = Append(result_queues, <<>>)
                /\ request_queue' =
                       queue_api_request(request_queue, "fetch_from_civitai",
                                         d.hash, Len(result_queues) + 1)
                /\ requests' = queue_api_request(requests, "fetch_from_civitai",
                                                 d.hash, Len(result_queues) + 1)
                /\ workers' = WorkersAfterEnqueue(workers)
                /\ threads' = [threads EXCEPT ![c] =
                                 [entered EXCEPT !.pc = "waiting",
                                                 !.rq = Len(result_queues) + 1,
                                                 !.tleft = AwaitTimeout]]
                /\ last' = NoCall
    /\ UNCHANGED <<request_times, is_running, wpc, wsleep, current,
                   sidecar, workload, issued, invoked, delivered, abandoned>>

\* get_lora_metadata from "if not api_data" to its return.  save_metadata
\* runs here with no other save between its open and its close; StoreSpec has
\* the saves of two threads interleave.
Finish(c, api_data) ==
    LET t == threads[c]
    IN  /\ threads' = [threads EXCEPT ![c] = IdleThread]
        /\ IF ~Truthy(api_data)
           THEN /\ last' = Ended(t, api_data, None)
                /\ UNCHANGED sidecar
           ELSE IF NormalizeRaises(api_data)
           THEN /\ last' = Ended(t, api_data, Raised)
                /\ UNCHANGED sidecar
           ELSE \E metadata \in {Normalize(t.hash, api_data)},
                   outcome \in SaveOutcomes :
                    /\ sidecar' = save_metadata(sidecar, ResolvePath(t.file),
                                                metadata, outcome)
                    /\ last' = Ended(t, api_data,
                                     ReturnAfterSave(metadata, outcome))

\* result_queue.get(timeout=30) returns an item
Receive(c) ==
    /\ threads[c].pc = "waiting"
    /\ result_queues[threads[c].rq] # <<>>
    /\ result_queues' = [result_queues EXCEPT ![threads[c].rq] = Tail(@)]
    /\ Finish(c, AwaitedValue(Head(result_queues[threads[c].rq])))
    /\ UNCHANGED <<request_queue, request_times, is_running, workers, wpc,
                   wsleep, current, workload, requests, issued, invoked,
                   delivered, abandoned>>

\* result_queue.get(timeout=30) raises Empty; the bare except returns None
Timeout(c) ==
    /\ threads[c].pc = "waiting"
    /\ threads[c].tleft = 0
    /\ result_queues[threads[c].rq] = <<>>
    /\ abandoned' = abandoned \cup {threads[c].rq}
    /\ Finish(c, None)
    /\ UNCHANGED <<request_queue, result_queues, request_times, is_running,
                   workers, wpc, wsleep, current, workload,
                   requests, issued, invoked, delivered>>

\* --------------------------------------------------------------------- time
\* TickSecs seconds pass
Tick ==
    /\ request_times' = [i \in 1..Len(request_times) |->
                           Min(request_times[i] + TickSecs, WindowSecs)]
    /\ issued' = SelectSeq([i \in 1..Len(issued) |-> issued[i] + TickSecs],
                           LAMBDA age : age < WindowSecs)
    /\ wsleep' = Max(0, wsleep - TickSecs)
    /\ threads' = [c \in Callers |->
                     [threads[c] EXCEPT !.tleft = Max(0, @ - TickSecs)]]
    /\ UNCHANGED <<request_queue, result_queues, is_running, workers, wpc,
                   current, sidecar, workload, requests, invoked,
                   delivered, abandoned>>
    /\ last' = NoCall

\* ----------------------------------------------------------- specifications
Worker ==
    \/ WorkerAdmit
    \/ WorkerWake

Callable ==
    \/ FetchOk
    \/ FetchNot200
    \/ FetchRaises
    \/ CallableKillsWorker

Next ==
    \/ Tick
    \/ WorkerAdmit
    \/ WorkerWake
    \/ FetchOk
    \/ FetchNot200
    \/ FetchRaises
    \/ CallableKillsWorker
    \/ \E c \in Active, f \in Arguments, r \in BOOLEAN : Call(c, f, r)
    \/ \E c \in Callers : Receive(c)
    \/ \E c \in Callers : Timeout(c)

\* The dispatcher under load: up to MaxRequests requests, one ordinary body
Spec == Init /\ [][Next]_vars

\* One caller with every kind of argument and every sidecar, starting with
\* an empty window or with a full one
InitLookup ==
    /\ InitDispatcher
    /\ request_times \in {<<>>, FullWindow}
    /\ issued = request_times
    /\ sidecar \in {f \in [Assets -> Sidecars] :
                      f["b"] = Absent /\ f["c"] = OldFile}
    /\ workload = "lookup"

LookupSpec == InitLookup /\ [][Next]_vars

\* The normalisation on every payload.  It starts where thread "ui" has
\* called get_lora_metadata(file, refresh) on an asset with a digest, the
\* worker has invoked its request at once and fetch_from_civitai has returned
\* a body; the one step is the rest of get_lora_metadata.
InitNormalize ==
    \E file \in {"a", "b"}, refresh \in BOOLEAN, body \in RichPayloads,
       found \in Sidecars :
        /\ Lookup([p \in Assets |-> found], file, refresh).act = "fetch"
        /\ sidecar = [p \in Assets |-> IF p = file THEN found ELSE Absent]
        /\ threads = [c \in Callers |->
                        IF c = "ui"
                        THEN [pc |-> "waiting", file |-> file,
                              refresh |-> refresh, before |-> found,
                              loaded |-> UseCache(refresh),
                              hash |-> sha256_from_cache(file), rq |-> 1,
                              tleft |-> AwaitTimeout, api_data |-> NotYet]
                        ELSE IdleThread]
        /\ requests = queue_api_request(<<>>, "fetch_from_civitai",
                                        sha256_from_cache(file), 1)
        /\ request_queue = <<>>
        /\ result_queues = << <<[success |-> TRUE, result |-> body]>> >>
        /\ request_times = <<0>>
        /\ issued = <<0>>
        /\ invoked = <<1>>
        /\ delivered = <<1>>
        /\ abandoned = {}
        /\ is_running = TRUE
        /\ workers = 1
        /\ wpc = "loop"
        /\ wsleep = 0
        /\ current = None
        /\ last = NoCall
        /\ workload = "normalize"

NextNormalize == \E c \in Callers : Receive(c)

NormalizeSpec == InitNormalize /\ [][NextNormalize]_vars

\* ------------------------------------------------------------ concurrent saves
\* Bodies that give records of different lengths
StoreBodies ==
    {ExamplePayload,
     Payload("n", List(<<"style">>), "missing", Missing, "url"),
     Payload("MISSING", Missing, "object", Null, "missing")}

\* save_metadata up to open(metadata_path, 'w'): the file exists and is empty
SaveOpen(c) ==
    /\ threads[c].pc = "save"
    /\ sidecar' = [sidecar EXCEPT ![ResolvePath(threads[c].file)] = File(<<>>)]
    /\ threads' = [threads EXCEPT ![c].pc = "opened"]
    /\ last' = NoCall
    /\ UNCHANGED <<request_queue, result_queues, request_times, is_running,
                   workers, wpc, wsleep, current, workload, requests, issued,
                   invoked, delivered, abandoned>>

\* json.dump into the file's buffer and the end of the with block: the text
\* is written from the start of the file; save_metadata returns True and
\* get_lora_metadata returns metadata
SaveClose(c) ==
    LET t == threads[c]
        metadata == Normalize(t.hash, t.api_data)
        lora_path == ResolvePath(t.file)
    IN  /\ t.pc = "opened"
        /\ sidecar' = [sidecar EXCEPT ![lora_path] =
                          File(Overwrite(@.lines, Lines(json_dump(metadata))))]
        /\ threads' = [threads EXCEPT ![c] = IdleThread]
        /\ last' = Ended(t, t.api_data, metadata)
        /\ UNCHANGED <<request_queue, result_queues, request_times,
                       is_running, workers, wpc, wsleep, current, workload,
                       requests, issued, invoked, delivered, abandoned>>

\* The write stops after the first n lines of the text have reached the file:
\* json.dump or the close of the file raises (a full disk, say) and except
\* Exception returns False, or the thread is killed there; get_lora_metadata
\* returns metadata
SaveCut(c) ==
    LET t == threads[c]
        metadata == Normalize(t.hash, t.api_data)
        lora_path == ResolvePath(t.file)
    IN  /\ t.pc = "opened"
        /\ \E text \in {json_dump(metadata)} :
               \E n \in 0..(JLines(text) - 1) :
                   sidecar' = [sidecar EXCEPT ![lora_path] =
                                  File(Overwrite(@.lines,
                                                 IF n = 0 THEN <<>>
                                                 ELSE <<Run(text, 1, n)>>))]
        /\ threads' = [threads EXCEPT ![c] = IdleThread]
        /\ last' = Ended(t, t.api_data, metadata)
        /\ UNCHANGED <<request_queue, result_queues, request_times,
                       is_running, workers, wpc, wsleep, current, workload,
                       requests, issued, invoked, delivered, abandoned>>

\* Two threads have called get_lora_metadata on asset "a", the worker has
\* served both requests within a second and each thread has received its
\* body and is about to call save_metadata (line 154).
InitStore ==
    \E body \in [Callers -> StoreBodies], refresh \in [Callers -> BOOLEAN],
       found \in Sidecars :
        /\ \A c \in Callers :
               Lookup([p \in Assets |-> found], "a", refresh[c]).act = "fetch"
        /\ sidecar = [p \in Assets |-> IF p = "a" THEN found ELSE Absent]
        /\ threads = [c \in Callers |->
                        [pc |-> "save", file |-> "a", refresh |-> refresh[c],
                         before |-> found, loaded |-> UseCache(refresh[c]),
                         hash |-> sha256_from_cache("a"),
                         rq |-> IF c = "ui" THEN 1 ELSE 2, tleft |-> 0,
                         api_data |-> body[c]]]
        /\ requests = queue_api_request(
                          queue_api_request(<<>>, "fetch_from_civitai",
                                            sha256_from_cache("a"), 1),
                          "fetch_from_civitai", sha256_from_cache("a"), 2)
        /\ request_queue = <<>>
        /\ result_queues = << <<>>, <<>> >>
        /\ request_times = <<0, 0>>
        /\ issued = <<0, 0>>
        /\ invoked = <<1, 2>>
        /\ delivered = <<1, 2>>
        /\ abandoned = {}
        /\ is_running = TRUE
        /\ workers = 1
        /\ wpc = "loop"
        /\ wsleep = 0
        /\ current = None
        /\ last = NoCall
        /\ workload = "store"

NextStore ==
    \/ \E c \in Callers : SaveOpen(c)
    \/ \E c \in Callers : SaveClose(c)
    \/ \E c \in Callers : SaveCut(c)

StoreSpec == InitStore /\ [][NextStore]_vars

\* Spec with a scheduler that keeps running every thread, a clock that keeps
\* advancing and callables that end
FairSpec ==
    /\ Init
    /\ [][Next]_vars
    /\ WF_vars(Tick)
    /\ WF_vars(Worker)
    /\ WF_vars(Callable)
    /\ \A c \in Callers : WF_vars(Receive(c)) /\ WF_vars(Timeout(c))

\* ------------------------------------------------------------------- claims
Ids == 1..Len(requests)
HasDuplicates(seq) == \E i, j \in 1..Len(seq) : i # j /\ seq[i] = seq[j]

\* C1: in every rolling 60-second window the worker invokes at most RateLimit
\* dequeued callables: at any moment, at most RateLimit invocations are less
\* than WindowSecs old.
C1_Quota == Len(issued) <= RateLimit

\* C1's case: a request that found the window full has been invoked after
\* the throttle sleep, while RateLimit - 1 earlier invocations are still
\* inside the window.
C1_Witness ==
    /\ wpc = "calling"
    /\ Len(request_times) = RateLimit + 1
    /\ Len(issued) = RateLimit

\* C2: every request put on the queue is eventually invoked and has a result
\* delivered to its result queue.
C2_EveryRequestServed ==
    \A i \in 1..MaxRequests :
        (i \in Ids) ~> (i \in Range(invoked) /\ i \in Range(delivered))

\* What the code does give: every request is served unless the worker thread
\* has ended.
ServedWhileWorkerLives ==
    \A i \in 1..MaxRequests :
        (i \in Ids) ~> (i \in Range(delivered) \/ wpc = "dead")

\* The call that just ended was get_lora_metadata(asset, refresh=False) on an
\* asset whose sidecar held a metadata record
CachedCall ==
    /\ last # NoCall
    /\ last.call.file \in Assets
    /\ ~last.call.refresh
    /\ ReadFile(last.call.before) \notin {None, EmptyJson}

\* C3: get_lora_metadata(path, refresh=False) on an existing asset with a valid
\* sidecar returns the sidecar's contents, puts nothing on the request queue
\* and has no fetch made for it.
C3_CachedNoFetch ==
    /\ [](CachedCall => /\ last.ret = ReadFile(last.call.before)
                        /\ last.call.rq = 0
                        /\ last.api = NotYet)
    /\ [][CachedCall' => UNCHANGED <<request_queue, requests, invoked>>]_vars

C3_Witness == CachedCall /\ last.ret = OldRecord

\* Calls of get_lora_metadata that are waiting for their fetch or just ended
Calls == {threads[c] : c \in {d \in Callers : threads[d].pc = "waiting"}}
         \cup {x \in {last.call} : last # NoCall}

\* C4 as stated: every get_lora_metadata(path, refresh=True) submits a fetch
\* to the dispatcher without consulting the store.
C4_RefreshAlwaysFetches ==
    \A call \in Calls : call.refresh => call.rq # 0 /\ ~call.loaded

\* C4 as amended: when the path resolves to an existing asset file that has a
\* digest, get_lora_metadata(path, refresh=True) submits a fetch_from_civitai
\* request for that digest without consulting the store, whether or not a
\* sidecar exists.
C4_RefreshFetchesDigest ==
    \A call \in Calls :
        (/\ call.refresh
         /\ call.file \in Assets
         /\ sha256_from_cache(call.file) # "")
        => /\ ~call.loaded
           /\ call.rq \in Ids
           /\ requests[call.rq].func = "fetch_from_civitai"
           /\ requests[call.rq].args = sha256_from_cache(call.file)

C4_Witness ==
    \E c \in Callers :
        /\ threads[c].pc = "waiting"
        /\ threads[c].refresh
        /\ threads[c].before = OldFile
        /\ request_queue # <<>>
        /\ request_queue[Len(request_queue)].result_queue = threads[c].rq

\* C5: get_lora_metadata returns a metadata record or None and never raises.
C5_NeverRaises == last.ret # Raised

\* C6: the keywords of every record get_lora_metadata returns or writes to
\* a sidecar hold no string twice.
C6_KeywordsUnique ==
    \A m \in {last.ret} \cup {load_metadata(sidecar, p) : p \in Assets} :
        (m.k = "rec" /\ m.keywords.k = "list") => ~HasDuplicates(m.keywords.v)

\* The elements of words at the positions in idx, in the order of words
SubSeqAt(words, idx) ==
    LET n == Cardinality(idx)
        pos == CHOOSE g \in [1..n -> idx] :
                   \A a, b \in 1..n : a < b => g[a] < g[b]
    IN  [i \in 1..n |-> words[pos[i]]]

\* The tags followed by the first occurrence of every trigger word that is
\* not a tag
TagsThenNewWords(tags, words) ==
    tags \o SubSeqAt(words, {i \in 1..Len(words) :
                               /\ words[i] \notin Range(tags)
                               /\ \A j \in 1..(i - 1) : words[j] # words[i]})

\* The call that just ended built a record from a payload whose tags and
\* trigger words are lists (a missing member counts as the empty list)
NormalizedCall ==
    /\ last.ret.k = "rec"
    /\ last.api.k = "object"
    /\ last.api.trainedWords.k # "null"
    /\ ~(HasTags(last.api) /\ last.api.tags.k = "null")

\* C7: the keywords are the catalog's tags followed by each trigger word not
\* already present, in the catalog's order, and trigger_words is the
\* catalog's list unchanged; the record written to the sidecar is the same.
C7_KeywordsTagsFirst ==
    NormalizedCall =>
        /\ last.ret.keywords =
               List(TagsThenNewWords(IF HasTags(last.api) THEN last.api.tags.v
                                     ELSE <<>>,
                                     last.api.trainedWords.v))
        /\ last.ret.trigger_words = last.api.trainedWords.v
        /\ sidecar[last.call.file] \in
               {File(Lines(json_dump(last.ret))), last.call.before, Corrupt}
        /\ last.api = ExamplePayload =>
               last.ret.keywords = List(<<"anime", "style", "masterpiece">>)

C7_Witness ==
    /\ NormalizedCall
    /\ last.api = ExamplePayload
    /\ last.ret.keywords = List(<<"anime", "style", "masterpiece">>)
    /\ sidecar[last.call.file] = File(Lines(json_dump(last.ret)))

\* C8: at most one process_requests thread exists, however many callers
\* enqueue.
C8_OneWorker == workers <= 1

C8_Witness ==
    /\ \A c \in Callers : threads[c].pc = "waiting"
    /\ Len(request_queue) = 2
    /\ workers = 1

\* C9: whenever queue_api_request has put a request on the queue, a worker is
\* running to serve it.
C9_EnqueueStartsWorker ==
    [][Len(requests') > Len(requests) => workers' >= 1 /\ wpc' # "dead"]_vars

\* C10: a caller whose wait timed out has returned None, its request was not
\* taken from the queue by the timeout, and the worker still invokes it later.
C10_AbandonedStillRuns ==
    /\ [][abandoned' # abandoned =>
            /\ last'.ret = None
            /\ UNCHANGED <<request_queue, requests, current>>]_vars
    /\ \A i \in 1..MaxRequests : (i \in abandoned) ~> (i \in Range(invoked))

\* What the code does give: the timeout step itself is as C10 says
TimeoutLeavesQueue ==
    [][abandoned' # abandoned =>
         /\ last'.ret = None
         /\ UNCHANGED <<request_queue, requests, current>>]_vars

\* The items that lie on the result queues
Items ==
    UNION {Range(result_queues[i]) : i \in 1..Len(result_queues)}

\* C11 as stated: fetch_from_civitai ends every invocation by returning the
\* body or None to its caller, process_requests; it never raises, so the
\* worker never has a failure to deliver.
C11_FetchNeverRaises == \A item \in Items : item.success

\* C11 as amended: fetch_from_civitai returns the parsed body on status 200
\* and None on any other status, and raises on a network failure; the worker
\* absorbs the exception, so get_model_by_hash never raises: it returns the
\* body when the worker delivered one in time and None otherwise, and on None
\* get_lora_metadata returns None without raising.
C11_FetchAbsorbed ==
    /\ [](\A item \in Items :
             /\ item.result \in Bodies \cup {None}
             /\ ~item.success => item.result = None)
    /\ [](last.api \in Bodies \cup {None, NotYet})
    /\ [](last.api = None => last.ret = None)
    /\ [][\A c \in Callers :
             (threads[c].pc = "waiting" /\ threads'[c].pc = "idle") =>
                 LET q == result_queues[threads[c].rq]
                 IN  last'.api = IF q # <<>> /\ Head(q).success
                                 THEN Head(q).result ELSE None]_vars

\* C11's case: the catalog answered with another status than 200, or the
\* fetch raised, and the call that waited for it has returned None
C11_Witness ==
    /\ last.call.rq \in Range(delivered)
    /\ last.api = None
    /\ last.ret = None

\* The call that just ended fetched a payload, built a record from it, and
\* its save_metadata succeeded: the sidecar is a text written in full over
\* what the call had found
SavedCall ==
    /\ last.ret.k = "rec"
    /\ last.api # NotYet
    /\ sidecar[last.call.file] \notin {last.call.before, Corrupt, Absent}

\* C12: after a successful save_metadata(p, m), load_metadata(p) returns a
\* record equal to m.
C12_RoundTrip ==
    SavedCall => load_metadata(sidecar, last.call.file) = last.ret

\* C12's case: a record with no model id, null keywords or a preview image
\* has been saved and loads as it was
C12_Witness ==
    /\ SavedCall
    /\ last.ret.model_id = "NONE"
    /\ last.ret.preview_image # "ABSENT"
    /\ load_metadata(sidecar, last.call.file) = last.ret

\* C13: load_metadata returns None for a sidecar that is missing, unreadable
\* or malformed, and a get_lora_metadata(path, refresh=False) that finds such
\* a sidecar raises nothing and goes on to the fetch path: it asks for the
\* digest and, when there is one, submits the fetch.
C13_CorruptIsMiss ==
    /\ \A p \in Assets :
           sidecar[p] \in {Absent, Corrupt} => load_metadata(sidecar, p) = None
    /\ \A call \in Calls :
           (/\ ~call.refresh
            /\ call.file \in Assets
            /\ call.before \in {Absent, Corrupt})
           => /\ call.loaded
              /\ last.ret # Raised
              /\ IF sha256_from_cache(call.file) = ""
                 THEN call.rq = 0 /\ last.ret = None
                 ELSE /\ call.rq \in Ids
                      /\ requests[call.rq].func = "fetch_from_civitai"
                      /\ requests[call.rq].args = sha256_from_cache(call.file)

\* C13's case: a call with refresh=False found a sidecar that does not parse
\* and is waiting for its fetch
C13_Witness ==
    \E c \in Callers :
        /\ threads[c].pc = "waiting"
        /\ ~threads[c].refresh
        /\ threads[c].before = Corrupt
        /\ threads[c].rq \in Ids

\* C14: fetch_from_civitai is invoked by the worker on a dequeued request and
\* nowhere else: every thread that waits for a fetch, the UI's background
\* refresh included, has put it on the request queue; a body reaches
\* get_lora_metadata only from a request the worker invoked; and a result is
\* put on a result queue only by the worker, on the queue of the request it
\* is executing.
C14_FetchOnlyByWorker ==
    /\ [](\A c \in Callers :
             threads[c].pc = "waiting" =>
                 /\ threads[c].rq \in Ids
                 /\ requests[threads[c].rq] =
                        [func |-> "fetch_from_civitai",
                         args |-> threads[c].hash,
                         result_queue |-> threads[c].rq])
    /\ [](last.api \notin {NotYet, None} => last.call.rq \in Range(invoked))
    /\ [](wpc = "calling" =>
             /\ current.func = "fetch_from_civitai"
             /\ current.result_queue \in Ids
             /\ requests[current.result_queue] = current)
    /\ [][\A i \in 1..Len(result_queues) :
             Len(result_queues'[i]) > Len(result_queues[i]) =>
                 wpc = "calling" /\ current.result_queue = i]_vars

\* C14's case: two threads have asked for a fetch, the worker has invoked
\* both requests, and a call has returned with the body of the second
C14_Witness ==
    /\ Len(invoked) = 2
    /\ last.call.rq = 2
    /\ last.api = ExamplePayload

\* C15: every request is invoked once and has one result delivered, to its
\* own result queue: no request is invoked or answered twice, only invoked
\* requests are answered, and a request the worker has invoked and is no
\* longer executing has its result.
C15_ConsumedExactlyOnce ==
    /\ ~HasDuplicates(invoked)
    /\ ~HasDuplicates(delivered)
    /\ Range(delivered) \subseteq Range(invoked)
    /\ Range(invoked) \subseteq Ids
    /\ \A i \in Range(invoked) :
           \/ i \in Range(delivered)
           \/ wpc = "calling" /\ current.result_queue = i

\* What the code does give: no request is invoked or answered twice, and a
\* request misses its result only when its callable ended the worker
ConsumedAtMostOnce ==
    /\ ~HasDuplicates(invoked)
    /\ ~HasDuplicates(delivered)
    /\ Range(delivered) \subseteq Range(invoked)
    /\ Range(invoked) \subseteq Ids
    /\ \A i \in Range(invoked) :
           \/ i \in Range(delivered)
           \/ wpc = "calling" /\ current.result_queue = i
           \/ wpc = "dead" /\ i = invoked[Len(invoked)]

\* C16: when two save_metadata calls for one asset interleave, the sidecar
\* holds, once both have returned, the whole record of the call that
\* finished last and nothing else.
C16_LastWriterWins ==
    (last # NoCall /\ \A c \in Callers : threads[c].pc = "idle") =>
        /\ sidecar[last.call.file] = File(Lines(json_dump(last.ret)))
        /\ load_metadata(sidecar, last.call.file) = last.ret

\* What the code does give: the file starts with the whole text of the call
\* that finished last
LastWriterFirstLines ==
    (last # NoCall /\ \A c \in Callers : threads[c].pc = "idle") =>
        LET text == Lines(json_dump(last.ret))
        IN  /\ sidecar[last.call.file].lines # <<>>
            /\ <<Head(sidecar[last.call.file].lines)>> = text

\* The call that just ended got a body from which the normalisation builds a
\* record
BuiltCall ==
    /\ last.api # NotYet
    /\ Truthy(last.api)
    /\ ~NormalizeRaises(last.api)

\* C17: when the fetch and the normalisation succeeded, get_lora_metadata
\* returns the normalised record and raises nothing, whether or not
\* save_metadata could write the sidecar.
C17_SaveBestEffort ==
    BuiltCall => /\ last.ret = Normalize(last.call.hash, last.api)
                 /\ last.ret.k = "rec"

\* C17's case: save_metadata failed, the sidecar is as it was or is a file
\* that does not parse, and the call has returned the record
C17_Witness ==
    /\ BuiltCall
    /\ sidecar[last.call.file] # File(Lines(json_dump(last.ret)))
    /\ sidecar[last.call.file] \in {last.call.before, Corrupt}
    /\ last.ret = Normalize(last.call.hash, last.api)

\* C18: the worker invokes the requests in the order in which they were put
\* on the queue: the k-th invocation is that of the k-th request enqueued,
\* and the queue holds the requests enqueued after it, in their order.
C18_Fifo ==
    /\ \A k \in 1..Len(invoked) : invoked[k] = k
    /\ Len(invoked) <= Len(requests)
    /\ \A k \in 1..Len(requests) : requests[k].result_queue = k
    /\ request_queue = SubSeq(requests, Len(invoked) + 1, Len(requests))

\* C18's case: two requests were enqueued, the worker is executing the first
\* and the second waits in the queue
C18_Witness ==
    /\ wpc = "calling"
    /\ current.result_queue = 1
    /\ Len(request_queue) = 1
    /\ request_queue[1].result_queue = 2

\* The requests whose callable has been invoked and has no result delivered
Unanswered == Range(invoked) \ Range(delivered)

\* C19: at most one dequeued callable is executing, and the worker begins
\* to invoke a request only when it executes none and every request it
\* invoked earlier has its result delivered.
C19_Serialized ==
    /\ [](Cardinality(Unanswered) <= 1)
    /\ [](wpc = "calling" => Unanswered = {current.result_queue})
    /\ [][Len(invoked') > Len(invoked) =>
             /\ wpc \in {"loop", "sleeping"}
             /\ current = None
             /\ Unanswered = {}
             /\ Len(invoked') = Len(invoked) + 1]_vars

\* C19's case: the first request has its result and the worker is executing
\* the second
C19_Witness ==
    /\ delivered = <<1>>
    /\ invoked = <<1, 2>>
    /\ wpc = "calling"

\* The entries of the window that are less than WindowSecs old, and the age
\* of the oldest of them
RECURSIVE InWindow(_)
InWindow(times) ==
    IF times = <<>> THEN <<>>
    ELSE IF Head(times) < WindowSecs
    THEN <<Head(times)>> \o InWindow(Tail(times))
    ELSE InWindow(Tail(times))
OldestAge(times) == CHOOSE a \in Range(times) : \A b \in Range(times) : b <= a

\* C20: with a request in the queue the worker prunes the window of the
\* entries that are WindowSecs old; if RateLimit entries or more are left it
\* takes nothing from the queue and sleeps WindowSecs minus the age of the
\* oldest entry, never less than 0, and it invokes the request only when that
\* entry is WindowSecs old; otherwise it takes the request at once.
C20_ThrottleStep ==
    /\ [][(wpc = "loop" /\ wpc' # "loop") =>
             /\ request_queue # <<>>
             /\ IF Len(InWindow(request_times)) >= RateLimit
                THEN /\ wpc' = "sleeping"
                     /\ wsleep' = WindowSecs - OldestAge(InWindow(request_times))
                     /\ wsleep' >= 0
                     /\ request_times' = InWindow(request_times)
                     /\ UNCHANGED <<request_queue, invoked>>
                ELSE /\ wpc' = "calling"
                     /\ request_queue' = Tail(request_queue)
                     /\ request_times' = Append(InWindow(request_times), 0)
                     /\ invoked' = Append(invoked, Head(request_queue).result_queue)]_vars
    /\ [][(wpc = "sleeping" /\ wpc' # "sleeping") =>
             /\ wsleep = 0
             /\ OldestAge(request_times) >= WindowSecs
             /\ wpc' = "calling"
             /\ request_queue' = Tail(request_queue)
             /\ request_times' = Append(request_times, 0)]_vars
    /\ [](wpc = "sleeping" =>
             /\ Len(request_times) >= RateLimit
             /\ wsleep >= WindowSecs - OldestAge(request_times))

\* C20's case: the worker found RateLimit entries in the window, the oldest
\* 2 * TickSecs old, and sleeps for the rest of that entry's window
C20_Witness ==
    /\ wpc = "sleeping"
    /\ Len(request_times) = RateLimit
    /\ request_times[1] = 2 * TickSecs
    /\ wsleep = WindowSecs - 2 * TickSecs

\* The records the threads of StoreSpec pass to save_metadata
StoreRecords ==
    {Normalize(sha256_from_cache("a"), body) : body \in StoreBodies}

InterruptedAloneIsMiss ==
    (/\ \E c \in Callers : threads[c].pc # "save"
     /\ \E c \in Callers : threads[c].pc = "save") =>
        load_metadata(sidecar, "a") \in {None} \cup StoreRecords

\* C22: whatever a callable does, return or raise, the worker is not left
\* terminated with a request unserved: when the worker thread has ended, every
\* request put on the queue has had its result delivered.
C22_WorkerSurvives ==
    wpc = "dead" => \A i \in Ids : i \in Range(delivered)

\* What the code does give: a callable that returns or raises an Exception
\* has its result put on the request's result queue and the worker is back in
\* its loop
ExceptionAbsorbed ==
    [][wpc = "calling" /\ wpc' \notin {"calling", "dead"} =>
          /\ wpc' = "loop"
          /\ delivered' = Append(delivered, current.result_queue)
          /\ Len(result_queues'[current.result_queue])
                 = Len(result_queues[current.result_queue]) + 1]_vars

\* C23: a call of get_lora_metadata that returns None leaves every sidecar as
\* it was, also a refresh of an asset that has one.  A sidecar changes only
\* in the step that ends a call whose fetch delivered a body: it is the
\* sidecar of that call's asset, and it then holds the text of the record
\* the call returns and nothing of what it held before (when the write fails
\* midway, a text that does not parse).  No sidecar is deleted.
C23_FailedLeavesStore ==
    /\ [](last.ret = None /\ last.call.file \in Assets =>
             sidecar[last.call.file] = last.call.before)
    /\ [][last'.ret = None => sidecar' = sidecar]_vars
    /\ [][sidecar' # sidecar =>
             /\ last'.api \in Bodies \ {EmptyPayload}
             /\ last'.ret = Normalize(last'.call.hash, last'.api)
             /\ \A p \in Assets \ {last'.call.file} : sidecar'[p] = sidecar[p]
             /\ sidecar'[last'.call.file]
                    \in {File(Lines(json_dump(last'.ret))), Corrupt}]_vars

\* C23's case: a refresh of an asset with a cached record has fetched, the
\* fetch gave nothing, the call has returned None and the record is still
\* in the sidecar.
C23_Witness ==
    /\ last.call.file = "a"
    /\ last.call.refresh
    /\ last.call.before = OldFile
    /\ last.call.rq # 0
    /\ last.ret = None
    /\ sidecar["a"] = OldFile

\* C24: a request whose caller has timed out while it was still queued is
\* invoked by the worker later; the invocation appends a timestamp to
\* request_times and counts in the window; the result the worker delivers for
\* it stays on its result queue, and no sidecar is written by the call that
\* was abandoned.
C24_LateResultDropped ==
    /\ \A i \in 1..MaxRequests :
           (i \in abandoned /\ i \notin Range(invoked))
               ~> (i \in Range(invoked))
    /\ [][invoked' # invoked =>
             /\ issued' = Append(issued, 0)
             /\ request_times'[Len(request_times')] = 0]_vars
    /\ [](\A i \in abandoned :
             i \in Range(delivered) => result_queues[i] # <<>>)
    /\ [][sidecar' # sidecar => last'.call.rq \notin abandoned']_vars

\* What the code does give: the result of an abandoned request is dropped
\* whenever the worker delivers one
LateResultStaysQueued ==
    /\ [][invoked' # invoked =>
             /\ issued' = Append(issued, 0)
             /\ request_times'[Len(request_times')] = 0]_vars
    /\ [](\A i \in abandoned :
             i \in Range(delivered) => result_queues[i] # <<>>)
    /\ [][sidecar' # sidecar => last'.call.rq \notin abandoned']_vars

\* A request was abandoned in the queue and the worker has since delivered a
\* body for it
LateResultDelivered ==
    \E i \in abandoned :
        /\ i \in Range(delivered)
        /\ \E j \in 1..Len(result_queues[i]) :
               result_queues[i][j].result \in Bodies

\* The lines of a whole text are accepted and give back the object: reading
\* a file that holds one whole text line by line gives the object of the text
WholeTextParses ==
    \A p \in Assets :
        Whole(sidecar[p].lines) =>
            /\ WellFormed(FileText(sidecar[p].lines))
            /\ Parsed(FileText(sidecar[p].lines)) = sidecar[p].lines[1].text

====
